---- MODULE Spec2Model ----
(***************************************************************************)
(* WhisperXService (Typist/Services/Python/whisperx_service.py): the model *)
(* handles of one service instance, the operations on it, and the command  *)
(* line entry point main().                                                *)
(*                                                                         *)
(* Spec      one instance driven by a client that calls its methods in any *)
(*           order (as test_cleanup.py does), external capabilities        *)
(*           failing or being interrupted at will.                         *)
(* SpecMain  one run of main(), statement by statement.                    *)
(***************************************************************************)
EXTENDS Integers, Sequences, FiniteSets

\* ------------------------------------------------------------------ bounds
MaxMemGB == 10       \* largest total_memory (whole GB) the accelerator reports
MaxSegs == 2         \* longest segment list handed to _extract_text alone
MaxTextLen == 2      \* longest segment text in such a list

\* ------------------------------------------------------------- vocabulary
None == "None"
Devices == {"cuda", "mps", "cpu"}
ModelSizes == {"base", "small"}
DefaultModelSize == "base"
AlignHandle == "align_model"
MetaHandle == "metadata"

VARIABLES
  torch,        \* the accelerator runtime of this process (fixed)
  whisperx,     \* whether `import whisperx` succeeds in this process (fixed)
  model,        \* self.model
  align_model,  \* self.align_model
  metadata,     \* self.metadata
  device,       \* self.device
  alive,        \* the instance exists (constructed, finalizer not yet run)
  op,           \* the method that ran last
  outcome,      \* how it ended: "return" or the exception it raised
  retval,       \* what it returned (a bool, a result record, None)
  calls,        \* external capabilities it invoked, in order
  heard,        \* what model.transcribe handed back to it (NoResult: nothing)
  failed,       \* the step of it that raised last (absorbed or not), or None
  prev,         \* client: the call before it, how that one ended and the
                \* alignment handle it left
  arg,          \* the argument it was called with
  cleanups,     \* main(): number of cleanup_models calls during the run
  struck,       \* main(): the steps that raised during the run
  pc,           \* position of main(), or of the client ("client": between
                \* two calls, "returned": looking at what a call gave)
  argv,         \* main(): sys.argv[1:], and the state of the file it names
  stdout,       \* main(): objects printed to standard output
  pending,      \* main(): exception in flight
  exitcode,     \* main(): process exit status
  interrupted   \* main(): a KeyboardInterrupt was delivered during the run

vars == <<torch, whisperx, model, align_model, metadata, device, alive, op, outcome,
          retval, arg, calls, heard, failed, prev, cleanups, struck, pc, argv,
          stdout, pending, exitcode, interrupted>>

svcVars == <<model, align_model, metadata, device, alive>>
obsVars == <<op, outcome, retval, arg, calls, heard, failed, prev>>
envVars == <<torch, whisperx>>
mainVars == <<cleanups, struck, argv, stdout, pending, exitcode,
              interrupted>>

\* The runtime: whether `import torch` succeeds and what it reports.  An
\* absent runtime reports nothing; torch.mps is looked at only when the
\* backend is available.
TorchEnvs ==
  { t \in [importable : BOOLEAN, cuda : BOOLEAN, has_mps : BOOLEAN,
           mps : BOOLEAN, has_empty_cache : BOOLEAN] :
      /\ (~t.importable => ~t.cuda /\ ~t.has_mps)
      /\ (~t.has_mps => ~t.mps)
      /\ (~t.mps => ~t.has_empty_cache) }

Handles == [model |-> model, align_model |-> align_model, metadata |-> metadata]

\* --------------------------------------------------------- _setup_device
\* A plausible slip: the secondary accelerator probed first.
setup_device_mps_first(t) ==
  IF ~t.importable THEN "cpu"
  ELSE IF t.has_mps /\ t.mps THEN "mps"
  ELSE IF t.cuda THEN "cuda"
  ELSE "cpu"

_setup_device(t) ==
  IF ~t.importable THEN "cpu"           \* except ImportError
  ELSE IF t.cuda THEN "cuda"
  ELSE IF t.has_mps /\ t.mps THEN "mps"
  ELSE "cpu"

\* An external capability as it was invoked: its name, the device (or file)
\* it was given and a number: for inference the batch size it was given, for
\* the memory read the whole GB it reported (Unreadable when it raised).
Call(cap, a, n) == [cap |-> cap, arg |-> a, n |-> n]
Caps(cs) == {cs[i].cap : i \in 1..Len(cs)}

\* What a method hands back.  A bool, a result dict and "nothing" share one
\* shape; a key the dict does not carry is None (text: empty, segments: 0).
Ret(kind, success, error, text, segments, language, dev) ==
  [kind |-> kind, success |-> success, error |-> error, text |-> text,
   segments |-> segments, language |-> language, device |-> dev]
NoReturn == Ret("none", FALSE, None, <<>>, 0, None, None)  \* None, or raised
Returned(b) == Ret("bool", b, None, <<>>, 0, None, None)   \* a bare bool
Failure(error) == Ret("result", FALSE, error, <<>>, 0, None, None)

\* -------------------------------------------------------- cleanup_models
\* What goes wrong in a call: the step at which an external capability
\* raises an Exception, or at which a KeyboardInterrupt is delivered.
NoFault == [step |-> "none", kind |-> "none"]
Fault(step, kind) == [step |-> step, kind |-> kind]

CleanupCaps == {"gc.collect", "torch.cuda.empty_cache",
                "torch.cuda.synchronize", "torch.mps.empty_cache"}
CleanupDrops == {"del model", "del align_model", "del metadata"}
CleanupFaults ==
  {NoFault}
    \cup {Fault(s, "Exception") : s \in CleanupCaps}
    \cup {Fault(s, "KeyboardInterrupt") :
            s \in {"import torch"} \cup CleanupDrops \cup CleanupCaps}

\* Lines 234-244: the cache calls made for the session device.
CleanupCacheSteps(dev, t) ==
  IF dev = "cuda" /\ t.cuda
    THEN <<"torch.cuda.empty_cache", "torch.cuda.synchronize">>
  ELSE IF dev = "mps" /\ t.has_mps /\ t.mps
    THEN IF t.has_empty_cache THEN <<"torch.mps.empty_cache">> ELSE <<>>
  ELSE <<>>

\* Lines 210-244: the statements of the try block, in order.  A handle that
\* is already None is not touched.
CleanupPlan(h, dev, t) ==
  <<"import torch">>
    \o (IF h.model # None THEN <<"del model">> ELSE <<>>)
    \o (IF h.align_model # None THEN <<"del align_model">> ELSE <<>>)
    \o (IF h.metadata # None THEN <<"del metadata">> ELSE <<>>)
    \o <<"gc.collect">>
    \o CleanupCacheSteps(dev, t)

\* A slip: the except clause catching ImportError only.
CleanupCaughtImportOnly(kind, step) ==
  kind = "Exception" /\ step = "import torch"

\* Line 248: `except Exception` absorbs every Exception of the try block; a
\* KeyboardInterrupt is not an Exception and leaves the method.
CleanupCaught(kind, step) == kind = "Exception"

cleanup_models(h, dev, t, f) ==
  LET plan == CleanupPlan(h, dev, t)
      Raises(i) == \/ plan[i] = "import torch" /\ ~t.importable
                   \/ f.step = plan[i]
      stop == IF \E i \in 1..Len(plan) : Raises(i)
                THEN CHOOSE i \in 1..Len(plan) :
                       Raises(i) /\ \A j \in 1..(i-1) : ~Raises(j)
                ELSE Len(plan) + 1
      raised == stop <= Len(plan)
      kind == IF ~raised THEN "none"
              ELSE IF f.step = plan[stop] THEN f.kind
              ELSE "Exception"                      \* ImportError
      Ran(s) == \E i \in 1..(stop-1) : plan[i] = s
  IN [model       |-> IF Ran("del model") THEN None ELSE h.model,
      align_model |-> IF Ran("del align_model") THEN None ELSE h.align_model,
      metadata    |-> IF Ran("del metadata") THEN None ELSE h.metadata,
      calls       |-> [i \in 1..(IF raised THEN stop ELSE Len(plan)) |->
                        Call(plan[i], None, 0)],
      failed      |-> IF raised THEN plan[stop] ELSE None,
      outcome     |-> IF ~raised \/ CleanupCaught(kind, plan[stop])
                        THEN "return" ELSE kind,
      retval      |-> NoReturn]

\* ------------------------------------------------------------ load_model
LoadSteps == <<"import whisperx", "whisperx.load_model",
               "whisperx.load_align_model">>
LoadFaults ==
  {NoFault}
    \cup {Fault(s, "Exception") :
            s \in {"whisperx.load_model", "whisperx.load_align_model"}}
    \cup {Fault(LoadSteps[i], "KeyboardInterrupt") : i \in 1..3}

\* A slip: the session device itself rewritten by the compatibility fallback.
LoadDeviceRebind(dev) == IF dev = "mps" THEN "cpu" ELSE dev

\* Lines 68-71 assign the local device_to_use; self.device is not assigned.
LoadDevice(dev) == dev

\* A slip: the handler of lines 86-90 leaving the handle as it was.
AlignLoadFailedKeeps(old) == old

\* Line 89: a failed alignment load sets align_model to None,
AlignLoadFailed(old) == None

\* A slip: line 90 left out.
MetaLoadFailedKeeps(old) == old

\* line 90: and metadata to None.
MetaLoadFailed(old) == None

\* Lines 68-71: the device both loads are given.
device_to_use(dev) == IF dev = "mps" THEN "cpu" ELSE dev

load_model(h, dev, wx, model_size, f) ==
  LET Raises(i) == \/ i = 1 /\ ~wx
                   \/ f.step = LoadSteps[i]
      stop == IF \E i \in 1..3 : Raises(i)
                THEN CHOOSE i \in 1..3 : Raises(i) /\ \A j \in 1..(i-1) : ~Raises(j)
                ELSE 4
      kind == IF stop = 4 THEN "none"
              ELSE IF f.step = LoadSteps[stop] THEN f.kind
              ELSE "Exception"                      \* ImportError
      interrupt == kind = "KeyboardInterrupt"
      use == device_to_use(dev)
      all == <<Call("import whisperx", None, 0),
               Call("whisperx.load_model", use, 0),
               Call("whisperx.load_align_model", use, 0)>>
  IN [model       |-> IF stop > 2 THEN model_size ELSE h.model,
      align_model |-> IF stop = 4 THEN AlignHandle
                      ELSE IF stop = 3 /\ ~interrupt
                        THEN AlignLoadFailed(h.align_model)
                      ELSE h.align_model,
      metadata    |-> IF stop = 4 THEN MetaHandle
                      ELSE IF stop = 3 /\ ~interrupt
                        THEN MetaLoadFailed(h.metadata)
                      ELSE h.metadata,
      device      |-> LoadDevice(dev),
      calls       |-> SubSeq(all, 1, IF stop = 4 THEN 3 ELSE stop),
      failed      |-> IF stop < 4 THEN LoadSteps[stop] ELSE None,
      outcome     |-> IF interrupt THEN "KeyboardInterrupt" ELSE "return",
      retval      |-> IF interrupt THEN NoReturn
                      ELSE IF stop > 2 THEN Returned(TRUE) ELSE Returned(FALSE)]

\* ----------------------------------------------- _get_optimal_batch_size
Unreadable == -1     \* get_device_properties raised

_get_optimal_batch_size(dev, memory_gb) ==
  IF dev = "cuda"
    THEN IF memory_gb = Unreadable THEN 16         \* bare except, line 186
         ELSE IF memory_gb > 8 THEN 32
         ELSE IF memory_gb > 4 THEN 16
         ELSE 8
  ELSE IF dev = "mps" THEN 8
  ELSE 4

\* ---------------------------------------------------------- _extract_text
\* A text is a sequence of characters; a segment may lack the "text" key.
Whitespace == {" "}
Punctuation == {".", ",", "!", "?", ";", ":"}
Seg(txt) == [has_text |-> TRUE, text |-> txt]
NoTextSeg == [has_text |-> FALSE, text |-> <<>>]

RECURSIVE lstrip(_)
lstrip(s) == IF s # <<>> /\ Head(s) \in Whitespace THEN lstrip(Tail(s)) ELSE s

RECURSIVE rstrip(_)
rstrip(s) ==
  IF s # <<>> /\ s[Len(s)] \in Whitespace
    THEN rstrip(SubSeq(s, 1, Len(s) - 1)) ELSE s

\* A slip: strip() taken for lstrip().
stripLeft(s) == lstrip(s)

strip(s) == rstrip(lstrip(s))

\* A slip: the punctuation test left out, a space before every segment.
StartsWithPunctuationNever(txt) == FALSE

\* Line 202: text.startswith(('.', ',', '!', '?', ';', ':'))
StartsWithPunctuation(txt) == txt # <<>> /\ Head(txt) \in Punctuation

\* Lines 197-204: one turn of the loop.
ExtractStep(full_text, segment) ==
  IF segment.has_text /\ segment.text # <<>>
    THEN LET text == strip(segment.text)
         IN IF text # <<>>
              THEN (IF full_text # <<>> /\ ~StartsWithPunctuation(text)
                      THEN full_text \o <<" ">> ELSE full_text) \o text
              ELSE full_text
    ELSE full_text

RECURSIVE ExtractLoop(_, _)
ExtractLoop(full_text, segments) ==
  IF segments = <<>> THEN full_text
  ELSE ExtractLoop(ExtractStep(full_text, Head(segments)), Tail(segments))

_extract_text(segments) == strip(ExtractLoop(<<>>, segments))

\* ------------------------------------------------------- transcribe_audio
\* The steps of transcribe_audio after the model is ready, and what can go
\* wrong at each.  get_device_properties sits under a bare except.
TranscribeFaults ==
  {NoFault}
    \cup {Fault(s, k) : s \in {"whisperx.load_audio", "model.transcribe"},
                        k \in {"Exception", "ImportError", "KeyboardInterrupt"}}
    \cup {Fault(s, k) : s \in {"whisperx.align", "_extract_text"},
                        k \in {"Exception", "KeyboardInterrupt"}}
    \cup {Fault("os.path.exists", "KeyboardInterrupt"),
          Fault("torch.cuda.get_device_properties", "KeyboardInterrupt")}

Files == {"missing", "empty", "ok"}        \* what the path names
Audios == {"None", "empty", "samples"}     \* what load_audio returns
Languages == {"fr"}
\* a result dict with no segments and no language
NoResult == [segments |-> <<>>, language |-> None]

\* Line 163: "device": self.device
ResultDevice(dev) == dev

\* A slip: the size check left out.
InputErrorExistsOnly(file) ==
  IF file = "missing" THEN "Audio file not found" ELSE None

\* Lines 102-107: the validation of the path, None when it passes.
InputError(file) ==
  IF file = "missing" THEN "Audio file not found"
  ELSE IF file = "empty" THEN "Audio file is empty"
  ELSE None

\* A slip: the catch-all clause of lines 169-171 left out.
TranscribeCaughtImportOnly(kind) == kind = "ImportError"

\* Lines 166-171: `except ImportError` and `except Exception` take every
\* exception of the try body; a KeyboardInterrupt leaves the method.
TranscribeCaught(kind) == kind \in {"ImportError", "Exception"}

\* Lines 166-171: the two except clauses of transcribe_audio.
TranscribeError(kind) ==
  IF kind = "ImportError" THEN "WhisperX not properly installed"
  ELSE "Transcription failed"

\* A slip: the try around whisperx.align left out.
AlignCaughtNothing(kind) == FALSE

\* Lines 137-149: `except Exception` around whisperx.align.
AlignCaught(kind) == kind \in {"Exception", "ImportError"}

\* The outcome of a method: the handles and device it leaves, the external
\* capabilities it invoked, the step that raised last (if any), how it ended
\* and what it returned.
Out(hh, cs, fd, oc, rv) ==
  [model |-> hh.model, align_model |-> hh.align_model,
   metadata |-> hh.metadata, device |-> hh.device, calls |-> cs,
   failed |-> fd, outcome |-> oc, retval |-> rv]

\* A slip: line 112 testing the alignment handle.
ensure_model_by_alignment(h, dev, wx, fl) ==
  IF h.align_model = None
    THEN load_model(h, dev, wx, DefaultModelSize, fl)
    ELSE [model |-> h.model, align_model |-> h.align_model,
          metadata |-> h.metadata, device |-> dev, calls |-> <<>>,
          failed |-> None, outcome |-> "return", retval |-> Returned(TRUE)]

\* A slip: the test of line 112 left out, a load on every call.
ensure_model_always(h, dev, wx, fl) ==
  load_model(h, dev, wx, DefaultModelSize, fl)

\* Lines 111-114: the load_model() call made when no model is held; fl is
\* what goes wrong inside it.
ensure_model(h, dev, wx, fl) ==
  IF h.model = None
    THEN load_model(h, dev, wx, DefaultModelSize, fl)
    ELSE Out([model |-> h.model, align_model |-> h.align_model,
              metadata |-> h.metadata, device |-> dev],
             <<>>, None, "return", Returned(TRUE))

\* ld: the outcome of lines 111-114; f: what goes wrong elsewhere; audio,
\* memory_gb, res, ali: what load_audio, get_device_properties,
\* model.transcribe and whisperx.align hand back.
transcribe_audio(h, dev, wx, file, ld, f, audio, memory_gb, res, ali) ==
  LET Fail(hh, cs, fd, err) == Out(hh, cs, fd, "return", Failure(err))
      Intr(hh, cs, s) == Out(hh, cs, s, "KeyboardInterrupt", NoReturn)
      \* an exception leaving the try body at step s
      Raise(hh, cs, s) ==
        IF TranscribeCaught(f.kind)
          THEN Fail(hh, cs, s, TranscribeError(f.kind))
          ELSE Out(hh, cs, s, f.kind, NoReturn)
      input_error == InputError(file)
      h0 == [model |-> h.model, align_model |-> h.align_model,
             metadata |-> h.metadata, device |-> dev]
      \* lines 116-118
      c1 == ld.calls \o <<Call("import whisperx", None, 0)>>
      c2 == c1 \o <<Call("whisperx.load_audio", file, 0)>>
      \* line 126
      unreadable == f.step = "torch.cuda.get_device_properties"
                      \/ memory_gb = Unreadable
      batch_size == _get_optimal_batch_size(
                      dev, IF unreadable THEN Unreadable ELSE memory_gb)
      c3 == c2 \o (IF dev = "cuda"
                     THEN <<Call("torch.cuda.get_device_properties", None,
                                 IF unreadable THEN Unreadable ELSE memory_gb)>>
                     ELSE <<>>)
      \* line 129
      c4 == c3 \o <<Call("model.transcribe", None, batch_size)>>
      \* lines 137-150
      aligning == ld.align_model # None /\ ld.metadata # None
      c5 == c4 \o (IF aligning THEN <<Call("whisperx.align", dev, 0)>>
                   ELSE <<>>)
      align_raised == aligning /\ f.step = "whisperx.align"
      align_failed == align_raised /\ AlignCaught(f.kind)
      result == IF aligning /\ ~align_failed THEN ali ELSE res
      soft == IF align_failed THEN "whisperx.align" ELSE ld.failed
      \* model.transcribe was reached and returned
      inferred == /\ f.step \notin {"os.path.exists", "whisperx.load_audio",
                                     "model.transcribe"}
                  /\ input_error = None
                  /\ ld.outcome = "return" /\ ld.retval.success
                  /\ wx /\ audio = "samples"
      out ==
  IF f.step = "os.path.exists" THEN Intr(h0, <<>>, f.step)
  ELSE IF input_error # None THEN Fail(h0, <<>>, None, input_error)
  ELSE IF ld.outcome = "KeyboardInterrupt" THEN Intr(ld, ld.calls, ld.failed)
  ELSE IF ~ld.retval.success
    THEN Fail(ld, ld.calls, ld.failed, "Failed to load WhisperX model")
  ELSE IF ~wx
    THEN Fail(ld, c1, "import whisperx", TranscribeError("ImportError"))
  ELSE IF f.step = "whisperx.load_audio" THEN Raise(ld, c2, f.step)
  ELSE IF audio \in {"None", "empty"}
    THEN Fail(ld, c2, ld.failed, "Could not load audio data")
  ELSE IF f.step = "model.transcribe" THEN Raise(ld, c4, f.step)
  ELSE IF res.segments = <<>>
    THEN Fail(ld, c4, ld.failed, "No speech detected in audio")
  ELSE IF align_raised /\ ~align_failed THEN Raise(ld, c5, f.step)
  ELSE IF f.step = "_extract_text" THEN Raise(ld, c5, f.step)
  ELSE Out(ld, c5, soft, "return",
           Ret("result", TRUE, None, _extract_text(result.segments),
               Len(result.segments),
               IF result.language = None THEN "en" ELSE result.language,
               ResultDevice(ld.device)))
  IN [model |-> out.model, align_model |-> out.align_model,
      metadata |-> out.metadata, device |-> out.device, calls |-> out.calls,
      failed |-> out.failed, outcome |-> out.outcome, retval |-> out.retval,
      heard |-> IF inferred THEN res ELSE NoResult]

\* -------------------------------------------------------- get_system_info
\* Lines 258-286: the keys main() prints for --info that this model reads.
get_system_info(dev) == Ret("info", FALSE, None, <<>>, 0, None, dev)

\* ------------------------------------------------- external return values
SegmentLists ==
  { <<>>,
    <<Seg(<<" ">>)>>,
    <<NoTextSeg, Seg(<<" ", "a">>)>>,
    <<Seg(<<"a">>), Seg(<<",", "b", " ">>)>> }
Results == [segments : SegmentLists, language : {None} \cup Languages]
\* whisperx.align: a dict with "segments" and, possibly, other keys
AlignedResults ==
  [segments : {<<>>, <<Seg(<<"a">>)>>, <<Seg(<<"a">>), Seg(<<"b">>)>>},
   language : {None} \cup Languages]
\* total_memory in whole GB, or unreadable
MemoryReads == (0..MaxMemGB) \cup {Unreadable}

\* ---------------------------------------------------------------- states
NoExit == -1          \* the process has not exited
NoCall == [op |-> "none", outcome |-> "none", align_model |-> None]
Start ==
  /\ torch \in TorchEnvs
  /\ whisperx \in BOOLEAN
  /\ model = None /\ align_model = None /\ metadata = None /\ device = None
  /\ alive = FALSE
  /\ op = "none" /\ outcome = "none" /\ retval = NoReturn /\ arg = None
  /\ calls = <<>> /\ heard = NoResult /\ failed = None /\ prev = NoCall
  /\ cleanups = 0 /\ struck = {} /\ stdout = <<>> /\ pending = None
  /\ exitcode = NoExit /\ interrupted = FALSE

Init == Start /\ pc = "client" /\ argv = None

\* The effect of a method call r on the instance and on what is observed.
Apply(name, a, r) ==
  /\ UNCHANGED prev
  /\ model' = r.model
  /\ align_model' = r.align_model
  /\ metadata' = r.metadata
  /\ op' = name /\ arg' = a
  /\ outcome' = r.outcome /\ retval' = r.retval
  /\ calls' = r.calls /\ failed' = r.failed
  /\ heard' = (IF "heard" \in DOMAIN r THEN r.heard ELSE NoResult)

\* ------------------------------------------------- a client of the class
\* __init__, lines 29-34
Construct ==
  /\ pc = "client" /\ ~alive /\ prev = NoCall
  /\ pc' = "returned" /\ UNCHANGED prev
  /\ alive' = TRUE
  /\ model' = None /\ align_model' = None /\ metadata' = None
  /\ device' = _setup_device(torch)
  /\ op' = "__init__" /\ arg' = None /\ outcome' = "return"
  /\ retval' = NoReturn /\ calls' = <<>> /\ failed' = None
  /\ heard' = NoResult
  /\ UNCHANGED <<envVars, mainVars>>

CanCall == pc = "client" /\ alive /\ pc' = "returned"

LoadModel ==
  /\ CanCall
  /\ \E model_size \in ModelSizes, f \in LoadFaults :
     \E r \in {load_model(Handles, device, whisperx, model_size, f)} :
       Apply("load_model", model_size, r) /\ device' = r.device
  /\ UNCHANGED <<envVars, alive, mainVars>>

\* What a transcribe_audio call can give, over every combination of faults
\* and external return values it can come to read: a value that the call does
\* not reach (the load of a ready model, the inference result after a decode
\* fault) is not enumerated.
TranscribeCall(file) ==
  UNION { UNION {
    LET ld == ensure_model(Handles, device, whisperx, fl)
        decoding == /\ file = "ok" /\ whisperx
                    /\ f.step \notin {"os.path.exists", "whisperx.load_audio"}
                    /\ ld.outcome = "return" /\ ld.retval.success
        aligning == /\ ld.align_model # None /\ ld.metadata # None
                    /\ f.step \notin {"model.transcribe", "whisperx.align",
                                      "_extract_text"}
    IN UNION { UNION { UNION {
         { transcribe_audio(Handles, device, whisperx, file, ld, f, audio,
                            memory_gb, res, ali) :
             ali \in (IF res.segments # <<>> /\ aligning
                        THEN AlignedResults ELSE {NoResult}) } :
           res \in (IF decoding /\ audio = "samples"
                         /\ f.step # "model.transcribe"
                      THEN Results ELSE {NoResult}) } :
           memory_gb \in (IF decoding /\ audio = "samples" /\ device = "cuda"
                            THEN MemoryReads ELSE {0}) } :
           audio \in (IF decoding THEN Audios ELSE {"samples"}) } :
      fl \in (IF file = "ok" /\ model = None /\ f.step # "os.path.exists"
                THEN LoadFaults ELSE {NoFault}) } :
      f \in (IF file = "ok" THEN TranscribeFaults
               ELSE {NoFault, Fault("os.path.exists", "KeyboardInterrupt")}) }

TranscribeAudio ==
  /\ CanCall
  /\ \E file \in Files :
     \E r \in TranscribeCall(file) :
       Apply("transcribe_audio", file, r) /\ device' = r.device
  /\ UNCHANGED <<envVars, alive, mainVars>>

CleanupModels ==
  /\ CanCall
  /\ \E f \in CleanupFaults :
     \E r \in {cleanup_models(Handles, device, torch, f)} :
       Apply("cleanup_models", None, r)
  /\ UNCHANGED <<envVars, device, alive, mainVars>>

GetSystemInfo ==
  /\ CanCall /\ UNCHANGED prev
  /\ op' = "get_system_info" /\ arg' = None /\ outcome' = "return"
  /\ retval' = get_system_info(device) /\ calls' = <<>> /\ failed' = None
  /\ heard' = NoResult
  /\ UNCHANGED <<envVars, svcVars, mainVars>>

\* An exception in flight: its type and, for SystemExit, the exit status.
Exc(type, code) == [type |-> type, code |-> code]
NoExc == Exc(None, 0)
KeyboardInterrupt == Exc("KeyboardInterrupt", 0)

\* Lines 40-43: what is in flight once __exit__ is over.  It returns False,
\* so the exception of the with body goes on; an exception that leaves
\* cleanup_models takes its place.
ExitPending(exc, r) ==
  IF r.outcome = "return" THEN exc ELSE Exc(r.outcome, 0)

\* Lines 251-256: the bare except absorbs whatever leaves cleanup_models.
Finalizer(r) == [r EXCEPT !.outcome = "return"]

\* __del__ when the client drops its last reference
Del ==
  /\ CanCall
  /\ \E f \in CleanupFaults :
     \E r \in {cleanup_models(Handles, device, torch, f)} :
       Apply("__del__", None, Finalizer(r))
  /\ alive' = FALSE
  /\ UNCHANGED <<envVars, device, mainVars>>

\* The client has looked at what the call gave and goes on.
Return ==
  /\ pc = "returned"
  /\ pc' = "client"
  /\ prev' = [op |-> op, outcome |-> outcome, align_model |-> align_model]
  /\ op' = "none" /\ outcome' = "none" /\ retval' = NoReturn /\ arg' = None
  /\ calls' = <<>> /\ failed' = None /\ heard' = NoResult
  /\ UNCHANGED <<envVars, svcVars, mainVars>>

Next == Construct \/ LoadModel \/ TranscribeAudio \/ CleanupModels
          \/ GetSystemInfo \/ Del \/ Return

Spec == Init /\ [][Next]_vars

\* ------------------------------------------------------------------ main
NoArg == "<none>"
Argvs == {NoArg, "--info"} \cup Files
Sigint == 130        \* exit status of an uncaught KeyboardInterrupt

InitMain == Start /\ pc = "main" /\ argv \in Argvs

Emit(obj) == stdout' = Append(stdout, obj)

\* lines 291-294
MainNoArg ==
  /\ pc = "main" /\ argv = NoArg
  /\ Emit(Failure("No audio file provided"))
  /\ exitcode' = 1 /\ pc' = "exiting"
  /\ UNCHANGED <<envVars, svcVars, obsVars, cleanups, struck, argv, pending,
                 interrupted>>

\* line 300
MainInfoConstruct ==
  /\ pc = "main" /\ argv = "--info"
  /\ alive' = TRUE /\ device' = _setup_device(torch)
  /\ op' = "__init__" /\ outcome' = "return"
  /\ pc' = "info"
  /\ UNCHANGED <<envVars, model, align_model, metadata, retval, arg, calls, heard,
                 failed, prev, cleanups, struck, argv, stdout, pending,
                 exitcode, interrupted>>

\* lines 301-303
MainInfo ==
  /\ pc = "info"
  /\ op' = "get_system_info" /\ outcome' = "return"
  /\ retval' = get_system_info(device)
  /\ Emit(get_system_info(device))
  /\ exitcode' = 0 /\ pc' = "exiting"
  /\ UNCHANGED <<envVars, svcVars, arg, calls, heard, failed, prev, cleanups, struck,
                 argv, pending, interrupted>>

\* lines 306-309
MainMissing ==
  /\ pc = "main" /\ argv = "missing"
  /\ Emit(Failure("Audio file not found"))
  /\ exitcode' = 1 /\ pc' = "exiting"
  /\ UNCHANGED <<envVars, svcVars, obsVars, cleanups, struck, argv, pending,
                 interrupted>>

\* A KeyboardInterrupt outside the try statement of lines 312-328 (before
\* it, or inside one of its handlers) is caught by nobody.
MainUncaughtInterrupt ==
  /\ \/ pc \in {"main", "info"}
     \/ pc = "except" /\ pending.type # "SystemExit"
  /\ interrupted' = TRUE /\ struck' = struck \cup {pc}
  /\ exitcode' = Sigint /\ pc' = "exiting"
  /\ UNCHANGED <<envVars, svcVars, obsVars, cleanups, argv, stdout, pending>>

\* line 313: WhisperXService() and __enter__; an interrupt during the device
\* probe leaves a half-built instance and enters no scope.
MainConstruct ==
  /\ pc = "main" /\ argv \in {"empty", "ok"}
  /\ alive' = TRUE
  /\ op' = "__init__"
  /\ \/ /\ device' = _setup_device(torch)
        /\ outcome' = "return" /\ pc' = "with"
        /\ UNCHANGED <<pending, interrupted, struck>>
     \/ /\ device' = None
        /\ outcome' = "KeyboardInterrupt" /\ pc' = "except"
        /\ pending' = KeyboardInterrupt /\ interrupted' = TRUE
        /\ struck' = struck \cup {"_setup_device"}
  /\ UNCHANGED <<envVars, model, align_model, metadata, retval, arg, calls, heard,
                 failed, prev, cleanups, argv, stdout, exitcode>>

\* line 314
MainTranscribe ==
  /\ pc = "with"
  /\ \E r \in TranscribeCall(argv) :
       /\ Apply("transcribe_audio", argv, r) /\ device' = r.device
       /\ struck' = struck \cup ({r.failed} \ {None})
       /\ IF r.outcome # "return"
            THEN /\ pending' = Exc(r.outcome, 0)
                 /\ interrupted' = (interrupted
                                      \/ r.outcome = "KeyboardInterrupt")
                 /\ pc' = "__exit__"
            ELSE /\ UNCHANGED <<pending, interrupted>>
                 /\ pc' = "print"
  /\ UNCHANGED <<envVars, alive, cleanups, argv, stdout, exitcode>>

\* line 315
MainPrint ==
  /\ pc = "print"
  /\ Emit(retval)
  /\ pc' = "sys.exit"
  /\ UNCHANGED <<envVars, svcVars, obsVars, cleanups, struck, argv, pending,
                 exitcode, interrupted>>

\* line 318
MainSysExit ==
  /\ pc = "sys.exit"
  /\ pending' = Exc("SystemExit", IF retval.success THEN 0 ELSE 1)
  /\ pc' = "__exit__"
  /\ UNCHANGED <<envVars, svcVars, obsVars, cleanups, struck, argv, stdout,
                 exitcode, interrupted>>

\* A KeyboardInterrupt between the statements of the with body.
MainInterrupt ==
  /\ pc \in {"print", "sys.exit"}
  /\ pending' = KeyboardInterrupt /\ interrupted' = TRUE
  /\ struck' = struck \cup {pc}
  /\ pc' = "__exit__"
  /\ UNCHANGED <<envVars, svcVars, obsVars, cleanups, argv, stdout, exitcode>>

\* A slip: an __exit__ that only returns False.
MainExitSkips ==
  /\ pc = "__exit__"
  /\ op' = "__exit__" /\ arg' = pending.type /\ outcome' = "return"
  /\ pc' = "except"
  /\ UNCHANGED <<envVars, svcVars, retval, calls, heard, failed, prev, cleanups,
                 struck, argv, stdout, pending, exitcode, interrupted>>

\* lines 40-43, as the with statement is left
MainExit ==
  /\ pc = "__exit__"
  /\ \E f \in CleanupFaults :
     \E r \in {cleanup_models(Handles, device, torch, f)} :
       /\ Apply("__exit__", pending.type, r)
       /\ pending' = ExitPending(pending, r)
       /\ interrupted' = (interrupted \/ r.outcome = "KeyboardInterrupt")
       /\ struck' = struck \cup ({r.failed} \ {None})
  /\ cleanups' = cleanups + 1
  /\ pc' = "except"
  /\ UNCHANGED <<envVars, device, alive, argv, stdout, exitcode>>

\* lines 320-328; a SystemExit passes through both handlers
MainExcept ==
  /\ pc = "except"
  /\ CASE pending.type = "SystemExit" ->
            /\ exitcode' = pending.code /\ UNCHANGED stdout
       [] pending.type = "KeyboardInterrupt" ->
            /\ Emit(Failure("Transcription interrupted by user"))
            /\ exitcode' = 1
       [] OTHER ->
            /\ Emit(Failure("Unexpected error"))
            /\ exitcode' = 1
  /\ pc' = "exiting"
  /\ UNCHANGED <<envVars, svcVars, obsVars, cleanups, struck, argv, pending,
                 interrupted>>

\* lines 251-256: the interpreter may finalize the instance as it exits
MainFinalize ==
  /\ pc = "exiting" /\ alive
  /\ \E f \in CleanupFaults :
     \E r \in {cleanup_models(Handles, device, torch, f)} :
       Apply("__del__", None, Finalizer(r))
  /\ alive' = FALSE
  /\ cleanups' = cleanups + 1
  /\ UNCHANGED <<envVars, device, struck, pc, argv, stdout, pending, exitcode,
                 interrupted>>

\* the process is gone
MainExited ==
  /\ pc = "exiting"
  /\ pc' = "exited"
  /\ UNCHANGED <<envVars, svcVars, obsVars, cleanups, struck, argv, stdout,
                 pending, exitcode, interrupted>>

NextMain == MainNoArg \/ MainInfoConstruct \/ MainInfo \/ MainMissing
              \/ MainUncaughtInterrupt \/ MainConstruct \/ MainTranscribe
              \/ MainPrint \/ MainSysExit \/ MainInterrupt \/ MainExit
              \/ MainExcept \/ MainFinalize \/ MainExited

SpecMain == InitMain /\ [][NextMain]_vars

\* --------------------------------------------------- _extract_text alone
\* Segment lists as model.transcribe or whisperx.align may hand them to
\* _extract_text: texts over a letter, a blank and a punctuation mark,
\* segments without a "text" key, empty texts.
Chars == {"a", " ", ","}
Texts == UNION {[1..n -> Chars] : n \in 0..MaxTextLen}
Segments == {NoTextSeg} \cup {Seg(txt) : txt \in Texts}
AllSegmentLists == UNION {[1..n -> Segments] : n \in 0..MaxSegs}

\* A constructed service about to assemble the text of a segment list.
InitAssemble ==
  /\ torch \in TorchEnvs /\ whisperx \in BOOLEAN
  /\ model = None /\ align_model = None /\ metadata = None
  /\ device = _setup_device(torch) /\ alive = TRUE
  /\ op = "__init__" /\ outcome = "return" /\ retval = NoReturn /\ arg = None
  /\ calls = <<>> /\ failed = None /\ prev = NoCall
  /\ heard \in [segments : AllSegmentLists, language : {None}]
  /\ cleanups = 0 /\ struck = {} /\ stdout = <<>> /\ pending = None
  /\ exitcode = NoExit /\ interrupted = FALSE
  /\ pc = "assemble" /\ argv = None

\* lines 193-206
Assemble ==
  /\ pc = "assemble"
  /\ op' = "_extract_text" /\ outcome' = "return"
  /\ retval' = Ret("text", TRUE, None, _extract_text(heard.segments),
                   Len(heard.segments), None, None)
  /\ pc' = "assembled"
  /\ UNCHANGED <<envVars, svcVars, mainVars, arg, calls, heard, failed, prev>>

NextAssemble == Assemble

SpecAssemble == InitAssemble /\ [][NextAssemble]_vars

\* ================================================================ claims
Empty == model = None /\ align_model = None /\ metadata = None
PrimaryAvailable == torch.importable /\ torch.cuda
SecondaryAvailable == torch.importable /\ torch.has_mps /\ torch.mps
Scoped == argv \in {"empty", "ok"} /\ device # None   \* the with body was entered
Finalized == op = "__del__"                           \* __del__ has run

\* C1: whenever cleanup_models has returned, from whatever state it was
\* called and whatever step of it failed, the main model, the alignment
\* model and the alignment metadata are all None.
C1_ReleaseEndsEmpty ==
  (pc = "returned" /\ op = "cleanup_models" /\ outcome = "return") => Empty

\* C2: in a run of main() in which model.transcribe faulted, no handle is
\* held any more once the with statement has been left.
C2_ScopeEndsEmptyAfterInferenceFault ==
  (pc \in {"except", "exiting", "exited"} /\ "model.transcribe" \in struck)
    => Empty

\* C3: when cleanup_models is called right after a cleanup_models call that
\* returned, the state was EMPTY after the first call, the second call raises
\* no error and returns, the state is EMPTY again, and no handle changed.
C3_ReleaseIdempotent ==
  [][(/\ pc = "client"
      /\ prev.op = "cleanup_models" /\ prev.outcome = "return"
      /\ op' = "cleanup_models" /\ outcome' # "KeyboardInterrupt")
       => (Empty /\ outcome' = "return" /\ Empty' /\ Handles' = Handles)]_vars

\* C4: when the cleanup_models call of __exit__ is not cut short by an
\* interrupt, it returns normally, whatever step of it failed, and the
\* exception of the with body is still the one in flight.
C4_ReleaseNeverEscalates ==
  [][(pc = "__exit__" /\ outcome' # "KeyboardInterrupt")
       => (outcome' = "return" /\ pending' = pending)]_vars

\* C4 witness: a step of the release failed, __exit__ returned and the
\* SystemExit of the with body is still in flight.
C4_Witness ==
  /\ pc = "except" /\ op = "__exit__"
  /\ failed \in CleanupCaps /\ outcome = "return"
  /\ pending.type = "SystemExit"

\* C5 as stated: when the process is gone, cleanup_models has run exactly
\* once on the instance it built.
C5_ReleaseExactlyOnce ==
  (pc = "exited" /\ device # None) => cleanups = 1

\* C5 amended: __exit__ runs cleanup_models exactly once on every way out of
\* a with body that was entered and never on the --info path; the finalizer,
\* if the interpreter runs it, runs cleanup_models once more.
C5_ReleaseOncePerExitPlusFinalizer ==
  pc = "exited" =>
    cleanups = (IF Scoped THEN 1 ELSE 0) + (IF Finalized THEN 1 ELSE 0)

\* C5 witness: a run that left the with body and was finalized: two releases.
C5_Witness == pc = "exited" /\ Scoped /\ Finalized /\ cleanups = 2

\* C6: when a run of main() that was interrupted is over, no model or
\* alignment handle is still held.
C6_InterruptStillReleases ==
  (pc = "exited" /\ interrupted) => Empty

\* C7: when a run of main() is over, exactly one JSON object has been
\* written, and the exit status is 0 if it reports success or is the --info
\* diagnostic, else 1.
C7_OneJsonAndMatchingExit ==
  pc = "exited" =>
    /\ Len(stdout) = 1
    /\ exitcode = (IF stdout[1].success \/ stdout[1].kind = "info"
                     THEN 0 ELSE 1)

\* C8: the device chosen at construction is cuda whenever cuda reports
\* available, mps exactly when cuda does not and mps does, cpu exactly when
\* neither does (an absent runtime reports nothing); some device is chosen.
C8_DevicePriority ==
  alive /\ op = "__init__" =>
    /\ device \in Devices
    /\ PrimaryAvailable => device = "cuda"
    /\ device = "mps" <=> (~PrimaryAvailable /\ SecondaryAvailable)
    /\ device = "cpu" <=> (~PrimaryAvailable /\ ~SecondaryAvailable)

\* C8 witness: the primary accelerator is unavailable, the secondary is
\* available and was chosen.
C8_Witness ==
  /\ pc = "returned" /\ op = "__init__"
  /\ ~PrimaryAvailable /\ SecondaryAvailable /\ device = "mps"

\* C9: no method call on a constructed instance changes its device, and a
\* successful result reports the device recorded before the call.
C9_DeviceFixed ==
  [][/\ alive => device' = device
     /\ (op' = "transcribe_audio" /\ retval'.success)
          => retval'.device = device]_vars

\* C9 witness: a successful transcription of an mps session that loaded its
\* models (on cpu) during the call.
C9_Witness ==
  /\ pc = "returned" /\ op = "transcribe_audio" /\ retval.success
  /\ device = "mps" /\ retval.device = "mps"
  /\ \E i \in 1..Len(calls) :
       calls[i].cap = "whisperx.load_model" /\ calls[i].arg = "cpu"

\* C10: a transcribe_audio call on a path that does not exist, or on a
\* zero-byte file, returns the matching failure without having invoked any
\* external capability (no load, no decode) and leaves the handles as they
\* were.
C10_ValidationFirst ==
  [][(/\ op' = "transcribe_audio" /\ outcome' = "return"
      /\ arg' \in {"missing", "empty"})
       => (/\ ~retval'.success
           /\ retval'.error = (IF arg' = "missing" THEN "Audio file not found"
                               ELSE "Audio file is empty")
           /\ calls' = <<>>
           /\ Handles' = Handles)]_vars

\* C10 witness: a zero-byte file refused by a service that holds no model.
C10_Witness ==
  /\ pc = "returned" /\ op = "transcribe_audio" /\ arg = "empty"
  /\ retval.error = "Audio file is empty" /\ model = None

\* the external capabilities a call invoked with the device they were given
Invoked(cap) == {calls[i].arg : i \in {j \in 1..Len(calls) : calls[j].cap = cap}}
Ready == model # None

\* C11: whenever whisperx.load_model fails inside load_model, from whatever
\* state load_model was called, load_model returns failure and afterwards
\* the main model, the alignment model and the metadata are all None.
C11_MainLoadFailureLeavesEmpty ==
  [][(/\ op' = "load_model" /\ failed' = "whisperx.load_model"
      /\ outcome' = "return")
       => (~retval'.success /\ Empty')]_vars

\* C12: whenever whisperx.load_model succeeds and whisperx.load_align_model
\* fails inside load_model, load_model returns success, the main model is
\* held, and the alignment model and metadata are None, whatever they were
\* before the call.
C12_AlignLoadFailureNonFatal ==
  [][(/\ op' = "load_model" /\ failed' = "whisperx.load_align_model"
      /\ outcome' = "return")
       => (/\ retval'.success /\ Ready'
           /\ align_model' = None /\ metadata' = None)]_vars

\* C12 witness: the alignment load failed in a load_model call made while an
\* alignment model from an earlier load was held; the call reported success
\* and the service is left with the main model only.
C12_Witness ==
  /\ pc = "returned" /\ op = "load_model"
  /\ failed = "whisperx.load_align_model" /\ retval.success
  /\ prev.align_model = AlignHandle
  /\ Ready /\ align_model = None /\ metadata = None

\* C13: a load_model call for the size that is already loaded returns
\* success without invoking whisperx.load_model or whisperx.load_align_model
\* and leaves the handles as they were.
C13_ReloadSameSizeIsNoOp ==
  [][(/\ Ready /\ op' = "load_model" /\ arg' = model /\ outcome' = "return")
       => (/\ retval'.success
           /\ Invoked("whisperx.load_model")' = {}
           /\ Invoked("whisperx.load_align_model")' = {}
           /\ Handles' = Handles)]_vars

\* C14: a load_model call for another size than the loaded one runs the
\* release (handles dropped, gc.collect, cache calls) before it invokes
\* whisperx.load_model.
C14_ReloadOtherSizeReleasesFirst ==
  [][(/\ Ready /\ op' = "load_model" /\ arg' # model
      /\ Invoked("whisperx.load_model")' # {})
       => (\E i, j \in 1..Len(calls') :
             /\ i < j
             /\ calls'[i].cap = "gc.collect"
             /\ calls'[j].cap = "whisperx.load_model")]_vars

\* C15: whisperx.load_model is always given the session device (mps on an
\* mps session); whisperx.load_align_model is given cpu on an mps session
\* and the session device otherwise.
C15_DowngradeIsAlignmentOnly ==
  (pc = "returned" /\ op \in {"load_model", "transcribe_audio"}) =>
    /\ Invoked("whisperx.load_model") \subseteq {device}
    /\ Invoked("whisperx.load_align_model")
         \subseteq {IF device = "mps" THEN "cpu" ELSE device}

\* the numbers the calls of a capability carry: batch sizes given to
\* model.transcribe, whole GB reported by the memory read
Numbers(cap) == {calls[i].n : i \in {j \in 1..Len(calls) : calls[j].cap = cap}}

\* the batch size the table gives for a device and a readable memory value
BatchTable(dev, gb) ==
  IF dev = "cuda" THEN (IF gb > 8 THEN 32 ELSE IF gb >= 4 THEN 16 ELSE 8)
  ELSE IF dev = "mps" THEN 8
  ELSE 4

\* C16: the batch size given to model.transcribe is one of 4, 8, 16, 32; it
\* is 8 on mps and 4 on cpu; on cuda with readable memory it is 32 above
\* 8 GB, 16 from 4 to 8 GB and 8 below 4 GB.
C16_BatchSizeFollowsTable ==
  (pc = "returned" /\ op = "transcribe_audio") =>
    \A n \in Numbers("model.transcribe") :
      /\ n \in {4, 8, 16, 32}
      /\ device # "cuda" => n = BatchTable(device, 0)
      /\ \A gb \in Numbers("torch.cuda.get_device_properties") \ {Unreadable} :
           n = BatchTable(device, gb)

\* C17: when the memory read fails on cuda, the call goes on (the failure is
\* not propagated) and model.transcribe is given the batch size 8.
C17_UnreadableMemoryGivesEight ==
  (/\ pc = "returned" /\ op = "transcribe_audio"
   /\ Unreadable \in Numbers("torch.cuda.get_device_properties")) =>
    Numbers("model.transcribe") = {8}

\* the steps whose failure is soft: logged, and the call goes on
SoftSteps == {"whisperx.load_align_model", "whisperx.align"}

\* C18: when the last step that raised in a transcribe_audio call is a soft
\* one (the alignment load, or whisperx.align while an alignment handle was
\* present) and model.transcribe emitted segments, the call returns
\* success; when it is whisperx.align, the text and the segment count are
\* those of the result model.transcribe returned.
C18_AlignmentIsSoft ==
  (/\ pc = "returned" /\ op = "transcribe_audio" /\ outcome = "return"
   /\ failed \in SoftSteps /\ heard.segments # <<>>) =>
    /\ retval.success
    /\ failed = "whisperx.align" =>
         /\ retval.text = _extract_text(heard.segments)
         /\ retval.segments = Len(heard.segments)

\* C18 witness: whisperx.align was invoked and failed; the result is a
\* success carrying the two segments of the inference.
C18_Witness ==
  /\ pc = "returned" /\ op = "transcribe_audio"
  /\ failed = "whisperx.align" /\ Invoked("whisperx.align") # {}
  /\ retval.success /\ retval.segments = 2 /\ Len(heard.segments) = 2
  /\ retval.text = <<"a", ",", "b">>

\* C19: a successful transcribe_audio result carries no error, counts at
\* least one segment and has a non-empty text.
C19_SuccessHasSegmentsAndText ==
  (/\ pc = "returned" /\ op = "transcribe_audio" /\ outcome = "return"
   /\ retval.success) =>
    /\ retval.error = None
    /\ retval.segments >= 1
    /\ retval.text # <<>>

\* C20: a successful transcribe_audio result reports the language that
\* model.transcribe set, and "en" only when it set none, whether or not
\* whisperx.align ran.
C20_LanguageIsTheDetectedOne ==
  (/\ pc = "returned" /\ op = "transcribe_audio" /\ outcome = "return"
   /\ retval.success) =>
    retval.language = (IF heard.language = None THEN "en" ELSE heard.language)

\* ---- the reference assembly of claims C21 and C22
IsBlank(txt) == \A i \in 1..Len(txt) : txt[i] = " "
\* a text without its leading and trailing blanks, by positions
Trimmed(txt) ==
  IF IsBlank(txt) THEN <<>>
  ELSE LET solid == {i \in 1..Len(txt) : txt[i] # " "}
           first == CHOOSE i \in solid : \A j \in solid : i <= j
           last == CHOOSE i \in solid : \A j \in solid : j <= i
       IN SubSeq(txt, first, last)
\* the trimmed texts of the segments that are kept, in order
KeptTexts(segments) ==
  LET keep == {i \in 1..Len(segments) :
                 segments[i].has_text /\ ~IsBlank(segments[i].text)}
      Nth(k) == CHOOSE i \in keep : Cardinality({j \in keep : j <= i}) = k
  IN [k \in 1..Cardinality(keep) |-> Trimmed(segments[Nth(k)].text)]
RECURSIVE Joined(_)
Joined(texts) ==
  IF Len(texts) <= 1 THEN (IF texts = <<>> THEN <<>> ELSE texts[1])
  ELSE LET n == Len(texts)
           sep == IF texts[n][1] \in Punctuation THEN <<>> ELSE <<" ">>
       IN Joined(SubSeq(texts, 1, n - 1)) \o sep \o texts[n]
HasDoubleSpace(txt) ==
  \E i \in 1..(Len(txt) - 1) : txt[i] = " " /\ txt[i + 1] = " "

\* C21: for every segment list, _extract_text gives the kept segments'
\* trimmed texts (segments without text or with a blank text skipped) joined
\* by exactly one space, and by nothing before a text that starts with one
\* of . , ! ? ; :
C21_JoiningRule ==
  pc = "assembled" => retval.text = Joined(KeptTexts(heard.segments))

\* C21 witness: "a" followed by ",a" gives "a,a", no space before the comma.
C21_Witness ==
  /\ pc = "assembled"
  /\ heard.segments = <<Seg(<<"a">>), Seg(<<",", "a">>)>>
  /\ retval.text = <<"a", ",", "a">>

\* C22: for every segment list, the text _extract_text gives neither starts
\* nor ends with whitespace, and two spaces in a row occur in it only inside
\* one segment's own trimmed text, never where two segments are joined.
C22_NoOuterWhitespaceNoDoubleJoin ==
  pc = "assembled" =>
    /\ retval.text # <<>> =>
         /\ Head(retval.text) \notin Whitespace
         /\ retval.text[Len(retval.text)] \notin Whitespace
    /\ HasDoubleSpace(retval.text) =>
         \E i \in 1..Len(heard.segments) :
           HasDoubleSpace(Trimmed(heard.segments[i].text))

\* C22 witness: a list that starts with a punctuation segment and whose
\* segments carry surrounding whitespace.
C22_Witness ==
  /\ pc = "assembled"
  /\ heard.segments = <<Seg(<<" ", ",">>), Seg(<<"a", " ">>)>>
  /\ retval.text = <<",", " ", "a">>

\* the steps of a transcription whose failure is hard
HardSteps == {"import whisperx", "whisperx.load_model", "whisperx.load_audio",
              "model.transcribe", "_extract_text"}

\* C23: when an external capability of a transcription (model load, decode,
\* inference, text assembly) raises an error, transcribe_audio returns a
\* result with success false and an error message instead of raising, and a
\* run of main() that is not interrupted ends with exactly that one failure
\* object on standard output and exit status 1.
C23_CatchAllBoundary ==
  /\ (op = "transcribe_audio" /\ failed \in HardSteps
        /\ outcome # "KeyboardInterrupt")
       => (outcome = "return" /\ ~retval.success /\ retval.error # None)
  /\ (pc = "exited" /\ ~interrupted /\ struck \cap HardSteps # {})
       => (/\ Len(stdout) = 1
           /\ ~stdout[1].success /\ stdout[1].error # None
           /\ exitcode = 1)

\* C23 witness: model.transcribe raised, the run printed the failure result
\* and exited with status 1.
C23_Witness ==
  /\ pc = "exited" /\ ~interrupted /\ "model.transcribe" \in struck
  /\ Len(stdout) = 1 /\ stdout[1].error = "Transcription failed"
  /\ exitcode = 1

\* the stages of a transcription and the capabilities of each, in order
StageOf(cap) ==
  CASE cap \in {"whisperx.load_model", "whisperx.load_align_model"} -> 1
    [] cap = "whisperx.load_audio" -> 2
    [] cap = "model.transcribe" -> 3
    [] cap = "whisperx.align" -> 4
    [] OTHER -> 0
StageCalls == {i \in 1..Len(calls) : StageOf(calls[i].cap) > 0}
\* no capability of stage n or later was invoked
NothingFrom(n) == \A i \in StageCalls : StageOf(calls[i].cap) < n

\* C24: in every transcribe_audio call the capabilities are invoked in the
\* order load, decode, inference, align; the load only when no model was
\* held, and then for the default size; align only when an alignment handle
\* is held.  A failed load, an empty or null decode and an inference without
\* segments each end the call with success false and that stage's error,
\* and no capability of a later stage is invoked.
C24_StageOrderAndShortCircuit ==
  [][(op' = "transcribe_audio" /\ outcome' = "return") =>
       /\ \A i, j \in StageCalls' :
            i < j => StageOf(calls'[i].cap) <= StageOf(calls'[j].cap)
       /\ Invoked("whisperx.load_model")' # {} =>
            /\ ~Ready
            /\ Ready' => model' = DefaultModelSize
       /\ Invoked("whisperx.align")' # {} => align_model' # None
       \* load failure
       /\ (~Ready /\ arg' = "ok" /\ ~Ready') =>
            /\ ~retval'.success
            /\ retval'.error = "Failed to load WhisperX model"
            /\ NothingFrom(2)'
       \* empty or null decode
       /\ (/\ Invoked("whisperx.load_audio")' # {}
           /\ failed' # "whisperx.load_audio"
           /\ Invoked("model.transcribe")' = {}) =>
            /\ ~retval'.success
            /\ retval'.error = "Could not load audio data"
            /\ NothingFrom(3)'
       \* inference without segments
       /\ (/\ Invoked("model.transcribe")' # {}
           /\ failed' # "model.transcribe"
           /\ heard'.segments = <<>>) =>
            /\ ~retval'.success
            /\ retval'.error = "No speech detected in audio"
            /\ NothingFrom(4)'
       \* and whenever one of these errors is returned
       /\ retval'.error = "Failed to load WhisperX model" => NothingFrom(2)'
       /\ retval'.error = "Could not load audio data" => NothingFrom(3)'
       /\ retval'.error = "No speech detected in audio" => NothingFrom(4)'
     ]_vars

\* C24 witness: an inference without segments on a service that holds an
\* alignment handle: the failure is returned and whisperx.align not invoked.
C24_Witness ==
  /\ pc = "returned" /\ op = "transcribe_audio"
  /\ retval.error = "No speech detected in audio"
  /\ align_model # None
  /\ Invoked("model.transcribe") # {} /\ Invoked("whisperx.align") = {}

\* cleanup_models has returned to the client
Released == pc = "returned" /\ op = "cleanup_models" /\ outcome = "return"
\* position of the first call of a capability in the call log (0: none)
FirstCall(cap) ==
  IF cap \in Caps(calls)
    THEN CHOOSE i \in 1..Len(calls) :
           calls[i].cap = cap /\ \A j \in 1..(i - 1) : calls[j].cap # cap
    ELSE 0

\* C25: a step of cleanup_models that fails does not keep the following
\* steps from running: when the runtime import or gc.collect fails the
\* handles are dropped all the same, gc.collect is always invoked, and when
\* torch.cuda.empty_cache fails torch.cuda.synchronize is still invoked.
C25_CleanupStepsIndependent ==
  Released =>
    /\ failed \in {"import torch", "gc.collect"} => Empty
    /\ "gc.collect" \in Caps(calls)
    /\ failed = "torch.cuda.empty_cache" =>
         "torch.cuda.synchronize" \in Caps(calls)

\* C26: a cleanup_models call in which no step fails invokes the cache-clear
\* and the synchronize of the session accelerator on a cuda session and on
\* an mps session, and neither on a cpu session; every such call comes after
\* the handle drops and gc.collect.
C26_CacheClearAndSynchronize ==
  (Released /\ failed = None) =>
    /\ device = "cuda" =>
         {"torch.cuda.empty_cache", "torch.cuda.synchronize"} \subseteq Caps(calls)
    /\ device = "mps" =>
         {"torch.mps.empty_cache", "torch.mps.synchronize"} \subseteq Caps(calls)
    /\ device = "cpu" => Caps(calls) \cap (CleanupCaps \ {"gc.collect"}) = {}
    /\ \A i \in 1..Len(calls) :
         calls[i].cap \in CleanupCaps \ {"gc.collect"} =>
           /\ FirstCall("gc.collect") \in 1..(i - 1)
           /\ \A j \in i..Len(calls) : calls[j].cap \notin CleanupDrops
           /\ Empty

\* C27: a transcribe_audio call on a service that holds its main model,
\* however it ends, invokes neither external load and leaves the three
\* handles as they were; the handles change only in load_model, in
\* cleanup_models (also as run by the finalizer) and in the transcribe_audio
\* call of a service that holds no model.
C27_HandlesLiveAcrossTranscriptions ==
  [][/\ (Ready /\ op' = "transcribe_audio") =>
          /\ Invoked("whisperx.load_model")' = {}
          /\ Invoked("whisperx.load_align_model")' = {}
          /\ Handles' = Handles
     /\ (alive /\ Handles' # Handles) =>
          \/ op' \in {"load_model", "cleanup_models", "__del__"}
          \/ op' = "transcribe_audio" /\ ~Ready]_vars

\* C27 witness: model.transcribe raised in a call on a ready service that
\* has no alignment model; no load was invoked and the model is still held.
C27_Witness ==
  /\ pc = "returned" /\ op = "transcribe_audio"
  /\ failed = "model.transcribe" /\ ~retval.success
  /\ Invoked("whisperx.load_model") = {}
  /\ Ready /\ align_model = None

\* the handles agree: no alignment handle without the main model, alignment
\* model and metadata both held or both None
Consistent ==
  /\ align_model # None => Ready
  /\ align_model = None <=> metadata = None

\* C28: a fresh service is consistent, and every load_model,
\* transcribe_audio and cleanup_models call that is not cut short by an
\* interrupt, whatever external capability fails in it, takes a consistent
\* service to a consistent one.
C28_HandlesConsistent ==
  [][/\ op' = "__init__" => Consistent'
     /\ (/\ Consistent
         /\ op' \in {"load_model", "transcribe_audio", "cleanup_models"}
         /\ outcome' # "KeyboardInterrupt") => Consistent']_vars

\* C28 witness: gc.collect failed in a release of a service that held the
\* model and the alignment pair; all three are gone together.
C28_Witness ==
  /\ pc = "returned" /\ op = "cleanup_models" /\ failed = "gc.collect"
  /\ prev.align_model = AlignHandle
  /\ Empty /\ Consistent

====
